---- MODULE Spec2Model ----
(***************************************************************************)
(* Model of the Terraform class of src/src/terraform/index.js: one         *)
(* invocation of run() against a remote API whose answers are chosen        *)
(* nondeterministically.  Every await of the source is a suspension point: *)
(* an action issues the request (or starts the sleep), the next one        *)
(* consumes its outcome.                                                    *)
(***************************************************************************)
EXTENDS Integers, Sequences, FiniteSets, TLC

VARIABLES
    pc,             \* position of the invocation in run() and its callees
    workspace,      \* run() argument: workspace name, a sequence of characters
    awaitApply,     \* run() argument
    retryLimit,     \* this.retryLimit
    retryDuration,  \* this.retryDuration
    pollInterval,   \* this.pollInterval
    debug,          \* this.debug
    trace,          \* requests issued and sleeps started, in order
    workspaceId,    \* run(): const workspaceId
    config,         \* run(): const {id, uploadUrl}
    status,         \* _uploadConfiguration: let status
    counter,        \* let counter of _uploadConfiguration, then of _poll
    lastStatus,     \* _poll: let lastStatus
    runRes,         \* run(): let { runId, status }
    cfgSeen,        \* statuses returned by _getConfigVersionStatus, in order
    runSeen,        \* statuses read by _poll, in order
    replies,        \* per request, in order: what the HTTP client handed back
    settled,        \* per request, in order: TRUE if its await went on, FALSE if it threw
    logs,           \* number of console.log lines written
    result,         \* <<>> or <<value returned by run()>>
    error           \* <<>> or <<Error thrown by run()>>

vars == <<pc, workspace, awaitApply, retryLimit, retryDuration, pollInterval,
          debug, trace, workspaceId, config, status, counter, lastStatus,
          runRes, cfgSeen, runSeen, replies, settled, logs, result,
          error>>

-----------------------------------------------------------------------------
(* Bounds of the model. *)
MaxRetryLimit == 3
MaxNameLen == 2

(* Defaults of the constructor. *)
DefaultRetryDuration == 1000
DefaultPollInterval == 60000

(* JavaScript's undefined and null, kept apart from every string the API sends. *)
Undefined == "#undefined"
Null == "#null"

(* `${v}` : the string a template literal puts in place of v. *)
Str(v) == IF v = Undefined THEN "undefined" ELSE IF v = Null THEN "null" ELSE v

(* `${n}` for a number. *)
NumStr(n) == ToString(n)

(* JSON.stringify(v) for a string or undefined; the text is a token sequence. *)
JSONstringify(v) ==
    IF v = Undefined THEN <<"undefined">>
    ELSE IF v = Null THEN <<"null">>
    ELSE <<"\"", v, "\"">>

(* Truthiness of an id: undefined, null and the empty string are falsy. *)
Truthy(v) == v \notin {Undefined, Null, ""}

org == "acme"

-----------------------------------------------------------------------------
(* Inputs. *)
Chars == {"p", " "}

RECURSIVE SeqsUpTo(_)
SeqsUpTo(n) ==
    IF n = 0 THEN {<<>>}
    ELSE LET S == SeqsUpTo(n - 1)
         IN  S \cup {Append(s, c) : s \in {t \in S : Len(t) = n - 1}, c \in Chars}

WorkspaceNames == SeqsUpTo(MaxNameLen)
RetryLimits == 0..MaxRetryLimit
RetryDurations == {DefaultRetryDuration}
PollIntervals == {DefaultPollInterval}

(* workspace.indexOf(' ') : 0-based index of the first space, -1 if none. *)
IndexOfSpace(name) ==
    IF \E i \in 1..Len(name) : name[i] = " "
    THEN (CHOOSE i \in 1..Len(name) :
              name[i] = " " /\ \A j \in 1..(i - 1) : name[j] # " ") - 1
    ELSE -1

HasSpaceMutant(name) == Len(name) > 0 /\ name[1] = " "
HasSpace(name) == IndexOfSpace(name) >= 0

-----------------------------------------------------------------------------
(* What the HTTP client hands back.  A rejected promise carries an error   *)
(* with a message and, for an HTTP error status, a response.  A resolved    *)
(* promise carries res; shape tells how much of res.data.data exists.       *)
WsIds == {"ws-1", "ws-2"}
CvIds == {"cv-1", "cv-2"}
UploadUrls == {"https://up"}
RunIds == {"run-1"}
ConfigStatuses == {"pending", "uploaded", "errored", Undefined}
RunCreateStatuses == {"pending", "applied", Undefined}
RunStatuses == {"pending", "errored", "planned_and_finished", "applied"}

Reject(msg, resp) ==
    [ok |-> FALSE, message |-> msg, response |-> resp, shape |-> "none",
     id |-> Undefined, attributes |-> FALSE, status |-> Undefined,
     uploadUrl |-> Undefined]

Resolve(shape, id, attrs, st, url) ==
    [ok |-> TRUE, message |-> "", response |-> "none", shape |-> shape,
     id |-> id, attributes |-> attrs, status |-> st, uploadUrl |-> url]

Rejections ==
    { Reject("Network Error", "none"),
      Reject("Request failed with status code 500", "nodata"),
      Reject("Request failed with status code 422", "errors") }

(* res.data missing, res.data.data missing, res.data.data null. *)
Empties ==
    { Resolve(s, Undefined, FALSE, Undefined, Undefined) :
        s \in {"nodata", "data_undefined", "data_null"} }

WorkspaceResponses ==
    Rejections \cup Empties \cup
    { Resolve("resource", i, TRUE, Undefined, Undefined) :
        i \in WsIds \cup {Undefined, ""} }

ConfigVersionResponses ==
    Rejections \cup Empties \cup
    { Resolve("resource", "cv-1", FALSE, Undefined, Undefined) } \cup
    { Resolve("resource", i, TRUE, "pending", u) : i \in CvIds, u \in UploadUrls }

PutResponses ==
    Rejections \cup { Resolve("nodata", Undefined, FALSE, Undefined, Undefined) }

ConfigStatusResponses ==
    Rejections \cup Empties \cup
    { Resolve("resource", "cv-1", FALSE, Undefined, Undefined) } \cup
    { Resolve("resource", "cv-1", TRUE, s, Undefined) : s \in ConfigStatuses }

RunResponses ==
    Rejections \cup Empties \cup
    { Resolve("resource", "run-1", FALSE, Undefined, Undefined),
      Resolve("resource", Undefined, TRUE, "pending", Undefined) } \cup
    { Resolve("resource", i, TRUE, s, Undefined) :
        i \in RunIds, s \in RunCreateStatuses }

PollResponses ==
    Rejections \cup Empties \cup
    { Resolve("resource", "run-1", FALSE, Undefined, Undefined) } \cup
    { Resolve("resource", "run-1", TRUE, s, Undefined) : s \in RunStatuses }

(* Whether res.data.data is an object one can read properties of. *)
HasResource(res) == res.shape = "resource"

(* The message of the TypeError of reading property p of undefined or null. *)
TypeErrorMsg(of, p) == <<"Cannot read properties of ", of, " (reading '", p, "')">>

(* The TypeError, if any, of evaluating res.data.data.attributes.status. *)
StatusChainError(res) ==
    IF res.shape = "nodata" THEN TypeErrorMsg("undefined", "data")
    ELSE IF res.shape = "data_undefined" THEN TypeErrorMsg("undefined", "attributes")
    ELSE IF res.shape = "data_null" THEN TypeErrorMsg("null", "attributes")
    ELSE IF ~res.attributes THEN TypeErrorMsg("undefined", "status")
    ELSE <<>>

(* Outcome of a callee: it threw an Error with this message, or returned. *)
Threw(msg) == [threw |-> TRUE, message |-> msg]
Returned(v) == [threw |-> FALSE, message |-> <<>>, value |-> v]

(* err.response ? `\nResponse: ${JSON.stringify(...)}` : ``  (lines 186-188, 217-219) *)
ResponseSuffix(res) ==
    IF res.response = "none" THEN <<>>
    ELSE <<"\nResponse: ">> \o
         (IF res.response = "errors" THEN <<"[{\"status\":\"422\"}]">> ELSE <<"null">>)

-----------------------------------------------------------------------------
(* Requests and sleeps as they appear in the trace. *)
Request(method, url) == [op |-> method, url |-> url, ms |-> 0]
Sleep(ms) == [op |-> "SLEEP", url |-> <<>>, ms |-> ms]

WorkspaceUrl(name) == <<"/organizations/", Str(org), "/workspaces/">> \o name
ConfigVersionsUrl(wsId) == <<"/workspaces/", Str(wsId), "/configuration-versions">>
ConfigVersionUrl(id) == <<"/configuration-versions/", Str(id)>>
RunsUrl == <<"/runs">>
RunUrl(runId) == <<"/runs/", Str(runId)>>

-----------------------------------------------------------------------------
(* _checkWorkspace *)
CheckWorkspacePrefix == <<"Error checking the workspace: ">>

CheckWorkspaceResultMutant(res) ==
    IF ~res.ok THEN Threw(CheckWorkspacePrefix \o <<res.message>>)
    ELSE IF ~HasResource(res)
    THEN Threw(CheckWorkspacePrefix \o <<"No data returned from request.">>)
    ELSE Returned(res.id)

CheckWorkspaceResult(res) ==
    IF ~res.ok THEN Threw(CheckWorkspacePrefix \o <<res.message>>)
    ELSE IF ~HasResource(res)
    THEN Threw(CheckWorkspacePrefix \o <<"No data returned from request.">>)
    ELSE IF ~Truthy(res.id)
    THEN Threw(CheckWorkspacePrefix \o <<"Workspace not found.">>)
    ELSE Returned(res.id)

(* _getConfigVersionStatus *)
GetConfigVersionStatusPrefix == <<"Error getting configuration version: ">>

GetConfigVersionStatusResult(res) ==
    IF ~res.ok THEN Threw(GetConfigVersionStatusPrefix \o <<res.message>>)
    ELSE IF StatusChainError(res) # <<>>
    THEN Threw(GetConfigVersionStatusPrefix \o StatusChainError(res))
    ELSE Returned(res.status)

(* _createConfigVersion *)
CreateConfigVersionPrefix == <<"Error creating the config version: ">>

CreateConfigVersionResultMutant(res) ==
    IF ~res.ok THEN Threw(CreateConfigVersionPrefix \o <<res.message>>)
    ELSE IF res.shape \in {"nodata", "data_null"}
    THEN Threw(CreateConfigVersionPrefix \o <<"No configuration returned from request.">>)
    ELSE IF res.shape = "data_undefined" \/ ~res.attributes
    THEN Returned([id |-> Undefined, uploadUrl |-> Undefined])
    ELSE Returned([id |-> res.id, uploadUrl |-> res.uploadUrl])

CreateConfigVersionResult(res) ==
    IF ~res.ok THEN Threw(CreateConfigVersionPrefix \o <<res.message>>)
    ELSE IF res.shape \in {"nodata", "data_null"}
    THEN Threw(CreateConfigVersionPrefix \o <<"No configuration returned from request.">>)
    ELSE IF res.shape = "data_undefined"
    THEN Threw(CreateConfigVersionPrefix \o TypeErrorMsg("undefined", "id"))
    ELSE IF ~res.attributes
    THEN Threw(CreateConfigVersionPrefix \o TypeErrorMsg("undefined", "upload-url"))
    ELSE Returned([id |-> res.id, uploadUrl |-> res.uploadUrl])

(* _uploadConfiguration *)
UploadPrefix == <<"Error uploading the configuration: ">>

UploadMayRetryMutant(c, limit) == c <= limit
UploadMayRetry(c, limit) == c < limit

(* The delay of line 129. *)
UploadSleepMsMutant == pollInterval
UploadSleepMs == retryDuration

UploadDecisionNoFinalCheck(st, c, limit) ==
    IF st = "pending"
    THEN IF UploadMayRetry(c, limit) THEN "sleep" ELSE "timeout"
    ELSE "uploaded"

UploadDecisionMutant(st, c, limit) ==
    IF st # "uploaded"
    THEN IF UploadMayRetry(c, limit) THEN "sleep" ELSE "timeout"
    ELSE "uploaded"

(* One evaluation of the while loop and of the check after it, for the     *)
(* status just read.                                                       *)
UploadDecision(st, c, limit) ==
    IF st = "pending"
    THEN IF UploadMayRetry(c, limit) THEN "sleep" ELSE "timeout"
    ELSE IF st # "uploaded" THEN "invalid" ELSE "uploaded"

UploadTimeoutMsgMutant(limit) ==
    UploadPrefix \o
    <<"Config version status was still pending after ", NumStr(limit + 1), " attempts.">>

UploadTimeoutMsg(limit) ==
    UploadPrefix \o
    <<"Config version status was still pending after ", NumStr(limit), " attempts.">>

UploadInvalidMsg(st) ==
    UploadPrefix \o <<"Invalid config version status: ">> \o JSONstringify(st)

(* _run *)
RunPrefix == <<"Error requesting the run: ">>

RunResult(res) ==
    IF ~res.ok THEN Threw(RunPrefix \o <<res.message>> \o ResponseSuffix(res))
    ELSE IF ~HasResource(res)
    THEN Threw(RunPrefix \o <<"No data returned from request.">>)
    ELSE IF ~Truthy(res.id) THEN Threw(RunPrefix \o <<"Run Id not found.">>)
    ELSE IF ~res.attributes
    THEN Threw(RunPrefix \o TypeErrorMsg("undefined", "status"))
    ELSE Returned([runId |-> res.id, status |-> res.status])

(* _poll *)
PollPrefix == <<"Error requesting run status. ">>

PollContinueMutant(c, limit) == c <= limit
IsFinishedMutant(st) == st = "applied"
IsFinishedAnyEnd(st) == st \in {"planned_and_finished", "applied", "errored"}
IsFinished(st) == st = "planned_and_finished" \/ st = "applied"

PollContinue(c, limit) == c < limit

(* Line 209: the status kept for the error of line 214. *)
NextLastStatusMutant(last, st) == IF last = Null THEN st ELSE last
NextLastStatus(last, st) == st

(* The delay of line 212. *)
PollSleepMsMutant == retryDuration
PollSleepMs == pollInterval

PollFetchResult(res) ==
    IF ~res.ok THEN Threw(PollPrefix \o <<res.message>> \o ResponseSuffix(res))
    ELSE IF StatusChainError(res) # <<>>
    THEN Threw(PollPrefix \o StatusChainError(res))
    ELSE Returned(res.status)

PollExhaustedMsgMutant(last) == <<"Run status was ", Str(last)>>
PollExhaustedMsg(last) == PollPrefix \o <<"Run status was ", Str(last)>>

-----------------------------------------------------------------------------
inputs == <<workspace, awaitApply, retryLimit, retryDuration, pollInterval, debug>>

NoConfig == [id |-> Undefined, uploadUrl |-> Undefined]
NoRun == [runId |-> Undefined, status |-> Undefined]

Init ==
    /\ pc = "START"
    /\ workspace \in WorkspaceNames
    /\ awaitApply \in BOOLEAN
    /\ retryLimit \in RetryLimits
    /\ retryDuration \in RetryDurations
    /\ pollInterval \in PollIntervals
    /\ debug \in BOOLEAN
    /\ trace = <<>>
    /\ workspaceId = Undefined
    /\ config = NoConfig
    /\ status = Undefined
    /\ counter = 0
    /\ lastStatus = Null
    /\ runRes = NoRun
    /\ cfgSeen = <<>>
    /\ runSeen = <<>>
    /\ replies = <<>>
    /\ settled = <<>>
    /\ logs = 0
    /\ result = <<>>
    /\ error = <<>>

(* An Error leaves run(): nothing in run() catches it. *)
Fail(msg) == pc' = "FAILED" /\ error' = <<msg>>

(* run() line 235 calls _checkWorkspace: lines 55-56. *)
CheckWorkspaceCall ==
    /\ pc = "START"
    /\ IF HasSpace(workspace)
       THEN /\ Fail(CheckWorkspacePrefix \o <<"Workspace name should not contain spaces.">>)
            /\ UNCHANGED trace
       ELSE /\ pc' = "WS_GET"
            /\ trace' = Append(trace, Request("GET", WorkspaceUrl(workspace)))
            /\ UNCHANGED error
    /\ UNCHANGED <<inputs, workspaceId, config, status, counter, lastStatus,
                   runRes, cfgSeen, runSeen, replies, settled, logs, result>>

(* The lookup settles: lines 56-66, and run() keeps the id. *)
CheckWorkspaceResponse ==
    /\ pc = "WS_GET"
    /\ \E res \in WorkspaceResponses :
         LET r == CheckWorkspaceResult(res)
         IN  /\ replies' = Append(replies, res)
             /\ settled' = Append(settled, ~r.threw)
             /\ IF r.threw
                THEN Fail(r.message) /\ UNCHANGED workspaceId
                ELSE /\ pc' = "WORKSPACE_RESOLVED"
                     /\ workspaceId' = r.value
                     /\ UNCHANGED error
    /\ UNCHANGED <<inputs, trace, config, status, counter, lastStatus, runRes,
                   cfgSeen, runSeen, logs, result>>

(* run() line 236 calls _createConfigVersion: line 101. *)
CreateConfigVersionCall ==
    /\ pc = "WORKSPACE_RESOLVED"
    /\ pc' = "CV_POST"
    /\ trace' = Append(trace, Request("POST", ConfigVersionsUrl(workspaceId)))
    /\ UNCHANGED <<inputs, workspaceId, config, status, counter, lastStatus,
                   runRes, cfgSeen, runSeen, replies, settled, logs, result, error>>

(* The creation settles: lines 102-111. *)
CreateConfigVersionResponse ==
    /\ pc = "CV_POST"
    /\ \E res \in ConfigVersionResponses :
         LET r == CreateConfigVersionResult(res)
         IN  /\ replies' = Append(replies, res)
             /\ settled' = Append(settled, ~r.threw)
             /\ IF r.threw
                THEN Fail(r.message) /\ UNCHANGED config
                ELSE /\ pc' = "CONFIG_CREATED"
                     /\ config' = r.value
                     /\ UNCHANGED error
    /\ UNCHANGED <<inputs, trace, workspaceId, status, counter, lastStatus,
                   runRes, cfgSeen, runSeen, logs, result>>

(* run() line 237 calls _uploadConfiguration: line 123. *)
UploadCall ==
    /\ pc = "CONFIG_CREATED"
    /\ pc' = "UPLOAD_PUT"
    /\ trace' = Append(trace, Request("PUT", <<Str(config.uploadUrl)>>))
    /\ UNCHANGED <<inputs, workspaceId, config, status, counter, lastStatus,
                   runRes, cfgSeen, runSeen, replies, settled, logs, result, error>>

(* The PUT settles; on success line 124 asks for the status (line 77). *)
UploadPutResponse ==
    /\ pc = "UPLOAD_PUT"
    /\ \E res \in PutResponses :
         /\ replies' = Append(replies, res)
         /\ settled' = Append(settled, res.ok)
         /\ IF ~res.ok
            THEN Fail(UploadPrefix \o <<res.message>>) /\ UNCHANGED trace
            ELSE /\ pc' = "CV_STATUS_FIRST"
                 /\ trace' = Append(trace, Request("GET", ConfigVersionUrl(config.id)))
                 /\ UNCHANGED error
    /\ UNCHANGED <<inputs, workspaceId, config, status, counter, lastStatus,
                   runRes, cfgSeen, runSeen, logs, result>>

(* A status request settles with the loop's counter at c: the status is    *)
(* assigned, then the while loop (127-135) and the check after it (137-139)*)
(* run up to the next await.                                               *)
ConfigStatusSettles(c) ==
    \E res \in ConfigStatusResponses :
      LET r == GetConfigVersionStatusResult(res)
      IN  /\ replies' = Append(replies, res)
          /\ settled' = Append(settled, ~r.threw)
          /\ IF r.threw
             THEN /\ Fail(UploadPrefix \o r.message)
                  /\ UNCHANGED <<status, counter, cfgSeen, trace>>
             ELSE /\ status' = r.value
                  /\ counter' = c
                  /\ cfgSeen' = Append(cfgSeen, r.value)
                  /\ LET d == UploadDecision(r.value, c, retryLimit)
                     IN  CASE d = "sleep" ->
                                /\ pc' = "CV_SLEEP"
                                /\ trace' = Append(trace, Sleep(UploadSleepMs))
                                /\ UNCHANGED error
                           [] d = "timeout" ->
                                Fail(UploadTimeoutMsg(retryLimit)) /\ UNCHANGED trace
                           [] d = "invalid" ->
                                Fail(UploadInvalidMsg(r.value)) /\ UNCHANGED trace
                           [] d = "uploaded" ->
                                /\ pc' = "CONFIG_UPLOADED"
                                /\ UNCHANGED <<trace, error>>

(* Line 124-125: the first status, counter = 0. *)
ConfigStatusFirstResponse ==
    /\ pc = "CV_STATUS_FIRST"
    /\ ConfigStatusSettles(0)
    /\ UNCHANGED <<inputs, workspaceId, config, lastStatus, runRes, runSeen,
                   logs, result>>

(* Lines 130-131: a re-check, counter += 1. *)
ConfigStatusRetryResponse ==
    /\ pc = "CV_STATUS_RETRY"
    /\ ConfigStatusSettles(counter + 1)
    /\ UNCHANGED <<inputs, workspaceId, config, lastStatus, runRes, runSeen,
                   logs, result>>

ConfigSleepDoneMutant ==
    /\ pc = "CV_SLEEP"
    /\ pc' = "UPLOAD_PUT"
    /\ trace' = Append(trace, Request("PUT", <<Str(config.uploadUrl)>>))
    /\ UNCHANGED <<inputs, workspaceId, config, status, counter, lastStatus,
                   runRes, cfgSeen, runSeen, replies, settled, logs, result, error>>

(* Line 129's sleep ends; line 130 asks for the status again. *)
ConfigSleepDone ==
    /\ pc = "CV_SLEEP"
    /\ pc' = "CV_STATUS_RETRY"
    /\ trace' = Append(trace, Request("GET", ConfigVersionUrl(config.id)))
    /\ UNCHANGED <<inputs, workspaceId, config, status, counter, lastStatus,
                   runRes, cfgSeen, runSeen, replies, settled, logs, result, error>>

(* run() line 238 calls _run: line 172. *)
RunCall ==
    /\ pc = "CONFIG_UPLOADED"
    /\ pc' = "RUN_POST"
    /\ trace' = Append(trace, Request("POST", RunsUrl))
    /\ UNCHANGED <<inputs, workspaceId, config, status, counter, lastStatus,
                   runRes, cfgSeen, runSeen, replies, settled, logs, result, error>>

(* The run creation settles: lines 173-190. *)
RunResponse ==
    /\ pc = "RUN_POST"
    /\ \E res \in RunResponses :
         LET r == RunResult(res)
         IN  /\ replies' = Append(replies, res)
             /\ settled' = Append(settled, ~r.threw)
             /\ IF r.threw
                THEN Fail(r.message) /\ UNCHANGED runRes
                ELSE /\ pc' = "RUN_CREATED"
                     /\ runRes' = r.value
                     /\ UNCHANGED error
    /\ UNCHANGED <<inputs, trace, workspaceId, config, status, counter,
                   lastStatus, cfgSeen, runSeen, logs, result>>

(* Whether run() goes on to _poll (line 239). *)
ShouldPollMutant(await) == TRUE
ShouldPoll(await) == await

(* The head of _poll's while loop (line 203) with the counter at c:        *)
(* another fetch (line 204), or the throw of line 214 through the catch.   *)
PollLoopHead(c, last) ==
    IF PollContinue(c, retryLimit)
    THEN /\ pc' = "POLL_GET"
         /\ trace' = Append(trace, Request("GET", RunUrl(runRes.runId)))
         /\ UNCHANGED error
    ELSE Fail(PollExhaustedMsg(last)) /\ UNCHANGED trace

(* run() lines 239-241 without awaitApply: return { runId, status }. *)
ReturnUnpolled ==
    /\ pc = "RUN_CREATED"
    /\ ~ShouldPoll(awaitApply)
    /\ pc' = "DONE"
    /\ result' = <<runRes>>
    /\ UNCHANGED <<inputs, trace, workspaceId, config, status, counter,
                   lastStatus, runRes, cfgSeen, runSeen, replies, settled, logs, error>>

(* run() line 239 with awaitApply: _poll starts, lines 201-204. *)
PollCall ==
    /\ pc = "RUN_CREATED"
    /\ ShouldPoll(awaitApply)
    /\ counter' = 0
    /\ lastStatus' = Null
    /\ PollLoopHead(0, Null)
    /\ UNCHANGED <<inputs, workspaceId, config, status, runRes, cfgSeen,
                   runSeen, replies, settled, logs, result>>

(* A run-status fetch settles: lines 205-212, and lines 239-241 of run()   *)
(* when _poll returns.                                                     *)
PollResponse ==
    /\ pc = "POLL_GET"
    /\ \E res \in PollResponses :
         LET r == PollFetchResult(res)
         IN  /\ replies' = Append(replies, res)
             /\ settled' = Append(settled, ~r.threw)
             /\ IF r.threw
                THEN /\ Fail(r.message)
                     /\ UNCHANGED <<trace, runRes, counter, lastStatus, runSeen,
                                    logs, result>>
                ELSE /\ runSeen' = Append(runSeen, r.value)
                     /\ IF IsFinished(r.value)
                        THEN /\ pc' = "DONE"
                             /\ runRes' = [runRes EXCEPT !.status = r.value]
                             /\ result' = <<runRes'>>
                             /\ UNCHANGED <<trace, counter, lastStatus, logs, error>>
                        ELSE /\ lastStatus' = NextLastStatus(lastStatus, r.value)
                             /\ logs' = IF debug THEN logs + 1 ELSE logs
                             /\ counter' = counter + 1
                             /\ pc' = "POLL_SLEEP"
                             /\ trace' = Append(trace, Sleep(PollSleepMs))
                             /\ UNCHANGED <<runRes, result, error>>
    /\ UNCHANGED <<inputs, workspaceId, config, status, cfgSeen>>

PollSleepDoneMutant ==
    /\ pc = "POLL_SLEEP"
    /\ IF PollContinue(counter, retryLimit)
       THEN PollLoopHead(counter, lastStatus) /\ UNCHANGED result
       ELSE pc' = "DONE" /\ result' = <<runRes>> /\ UNCHANGED <<trace, error>>
    /\ UNCHANGED <<inputs, workspaceId, config, status, counter, lastStatus,
                   runRes, cfgSeen, runSeen, replies, settled, logs>>

PollSleepDoneStuck ==
    /\ pc = "POLL_SLEEP"
    /\ PollContinue(counter, retryLimit)
    /\ PollLoopHead(counter, lastStatus)
    /\ UNCHANGED <<inputs, workspaceId, config, status, counter, lastStatus,
                   runRes, cfgSeen, runSeen, replies, settled, logs, result>>

(* Line 212's sleep ends: back to the head of the loop. *)
PollSleepDone ==
    /\ pc = "POLL_SLEEP"
    /\ PollLoopHead(counter, lastStatus)
    /\ UNCHANGED <<inputs, workspaceId, config, status, counter, lastStatus,
                   runRes, cfgSeen, runSeen, replies, settled, logs, result>>

Next ==
    \/ CheckWorkspaceCall
    \/ CheckWorkspaceResponse
    \/ CreateConfigVersionCall
    \/ CreateConfigVersionResponse
    \/ UploadCall
    \/ UploadPutResponse
    \/ ConfigStatusFirstResponse
    \/ ConfigStatusRetryResponse
    \/ ConfigSleepDone
    \/ RunCall
    \/ RunResponse
    \/ ReturnUnpolled
    \/ PollCall
    \/ PollResponse
    \/ PollSleepDone

Spec == Init /\ [][Next]_vars

(* Every request settles, every sleep ends and every continuation that is  *)
(* ready runs: a step that can be taken is eventually taken.               *)
FairSpec == Spec /\ WF_vars(Next)

-----------------------------------------------------------------------------
(* Reading the trace. *)
Kind(e) ==
    CASE e.op = "SLEEP" -> "sleep"
      [] e.op = "PUT" -> "upload"
      [] e.op = "POST" /\ e.url[1] = "/runs" -> "runPost"
      [] e.op = "POST" /\ e.url[1] # "/runs" -> "cvPost"
      [] e.op = "GET" /\ e.url[1] = "/organizations/" -> "lookup"
      [] e.op = "GET" /\ e.url[1] = "/configuration-versions/" -> "cvStatus"
      [] e.op = "GET" /\ e.url[1] = "/runs/" -> "runStatus"

Rank(k) ==
    CASE k = "lookup" -> 1 [] k = "cvPost" -> 2 [] k = "upload" -> 3
      [] k = "cvStatus" -> 4 [] k = "runPost" -> 5 [] k = "runStatus" -> 6

IsRequest(e) == e.op # "SLEEP"
Requests == SelectSeq(trace, IsRequest)
Positions(k) == {i \in 1..Len(trace) : Kind(trace[i]) = k}
Count(k) == Cardinality(Positions(k))
Last(s) == s[Len(s)]

(* Sleeps of the upload-status loop come before the run is requested, the  *)
(* sleeps of the run-poll loop after.                                      *)
UploadSleeps ==
    LET S == Positions("sleep")
        R == Positions("runPost")
    IN  {i \in S : \A j \in R : i < j}
PollSleeps ==
    LET S == Positions("sleep")
        R == Positions("runPost")
    IN  {i \in S : \E j \in R : j < i}

-----------------------------------------------------------------------------
(* C1: the requests of an invocation come in the order lookup GET,         *)
(* configuration-version POST, upload PUT, status GETs, run POST, run      *)
(* status GETs; no step is skipped; lookup, POST, PUT and run POST are     *)
(* issued at most once; run status GETs appear only with awaitApply; and a *)
(* request is issued only when every earlier request has settled without   *)
(* throwing.                                                               *)
C1_RequestOrder ==
    LET R == Requests
    IN  /\ \A i, j \in 1..Len(R) :
             i < j => Rank(Kind(R[i])) <= Rank(Kind(R[j]))
        /\ \A i \in 1..Len(R) :
             Rank(Kind(R[i])) =
                 IF i = 1 THEN 1
                 ELSE LET prev == Rank(Kind(R[i - 1]))
                      IN  IF Rank(Kind(R[i])) = prev THEN prev ELSE prev + 1
        /\ \A k \in {"lookup", "cvPost", "upload", "runPost"} : Count(k) <= 1
        /\ Count("runStatus") > 0 => awaitApply
        /\ Len(R) - Len(settled) \in {0, 1}
        /\ Len(R) > Len(settled) => \A i \in 1..Len(settled) : settled[i]

(* C1 witness: a complete polled invocation with more than one request in  *)
(* each of the two loops.                                                  *)
C1_Witness ==
    /\ pc = "DONE"
    /\ awaitApply
    /\ Count("cvStatus") >= 2
    /\ Count("runStatus") >= 2

(* The replies to the requests of kind k, in order. *)
RepliesTo(k) ==
    LET R == Requests
        Answered == [i \in 1..Len(replies) |-> i]
        OfKind(i) == Kind(R[i]) = k
        At == SelectSeq(Answered, OfKind)
    IN  [n \in 1..Len(At) |-> replies[At[n]]]

(* The reply carries a status the code can read (res.data.data.attributes). *)
Readable(res) == res.ok /\ res.shape = "resource" /\ res.attributes

-----------------------------------------------------------------------------
(* C2: a step that fails ends the invocation in the failure state: the     *)
(* failure is entered without a new request and with no result, nothing is *)
(* issued once failed, a request whose await threw always means failure,   *)
(* and a result exists only when no step failed (every request settled,    *)
(* the last configuration status was uploaded and, with awaitApply, the    *)
(* last run status was a finished one).                                    *)
C2_Next ==
    /\ pc' = "FAILED" => trace' = trace /\ result' = <<>> /\ error' # <<>>
    /\ pc = "FAILED" => pc' = "FAILED"
    /\ (\E i \in 1..Len(settled') : ~settled'[i]) => pc' = "FAILED"
    /\ result' # <<>> =>
         /\ pc' = "DONE"
         /\ error' = <<>>
         /\ \A i \in 1..Len(settled') : settled'[i]
         /\ cfgSeen' # <<>> /\ cfgSeen'[Len(cfgSeen')] = "uploaded"
         /\ awaitApply' =>
              /\ runSeen' # <<>>
              /\ runSeen'[Len(runSeen')] \in {"planned_and_finished", "applied"}

C2_FailureAborts == [][C2_Next]_vars

(* C2 witness: the run was created, then polling ran out of attempts. *)
C2_Witness ==
    /\ pc = "FAILED"
    /\ Truthy(runRes.runId)
    /\ retryLimit >= 2
    /\ Len(runSeen) = retryLimit
    /\ result = <<>>

(* C3: a successful invocation without awaitApply never asks for the run   *)
(* status, never sleeps after the run request, and returns the id and the  *)
(* status of the create-run reply as they came.                            *)
C3_UnpolledResult ==
    (pc = "DONE" /\ ~awaitApply) =>
        /\ Count("runStatus") = 0
        /\ PollSleeps = {}
        /\ Len(result) = 1
        /\ Len(RepliesTo("runPost")) = 1
        /\ result[1].status = RepliesTo("runPost")[1].status
        /\ result[1].runId = RepliesTo("runPost")[1].id

(* C3 witness: returned unpolled, after the upload loop had slept, with a  *)
(* create-run status that is already a finished one.                       *)
C3_Witness ==
    /\ pc = "DONE"
    /\ ~awaitApply
    /\ UploadSleeps # {}
    /\ result = <<[runId |-> "run-1", status |-> "applied"]>>

(* C4: a successful invocation with awaitApply returns the status of the   *)
(* last run-status fetch, which is planned_and_finished or applied; at     *)
(* least one fetch was made, so the value is not taken from create-run.    *)
C4_PolledResult ==
    (pc = "DONE" /\ awaitApply) =>
        /\ Len(result) = 1
        /\ RepliesTo("runStatus") # <<>>
        /\ result[1].status = Last(RepliesTo("runStatus")).status
        /\ result[1].status \in {"planned_and_finished", "applied"}
        /\ result[1].runId = RepliesTo("runPost")[1].id

(* C4 witness: create-run already said applied, the poll said              *)
(* planned_and_finished, and that is what was returned.                    *)
C4_Witness ==
    /\ pc = "DONE"
    /\ awaitApply
    /\ RepliesTo("runPost")[1].status = "applied"
    /\ Len(runSeen) >= 2
    /\ result[1].status = "planned_and_finished"

(* C5: a workspace name with a space in it fails with the validation       *)
(* error, and no request is ever issued.                                   *)
C5_SpaceRejected ==
    (\E i \in 1..Len(workspace) : workspace[i] = " ") =>
        /\ Requests = <<>>
        /\ pc \in {"START", "FAILED"}
        /\ pc = "FAILED" =>
             error = <<<<"Error checking the workspace: ",
                         "Workspace name should not contain spaces.">>>>

(* C5 witness: a name whose space is not its first character has failed. *)
C5_Witness ==
    /\ pc = "FAILED"
    /\ workspace = <<"p", " ">>
    /\ trace = <<>>

(* The replies to the configuration status checks and to the run-status    *)
(* fetches.                                                                *)
CfgReplies == RepliesTo("cvStatus")
PollReplies == RepliesTo("runStatus")

(* The first n replies of rs all carry the status st. *)
AllStatus(rs, n, st) ==
    /\ n <= Len(rs)
    /\ \A i \in 1..n : Readable(rs[i]) /\ rs[i].status = st

UploadTimeoutText ==
    <<"Error uploading the configuration: ",
      "Config version status was still pending after ", ToString(retryLimit),
      " attempts.">>

-----------------------------------------------------------------------------
(* C6 as stated: the status loop makes at most retryLimit checks, the      *)
(* first one included, and fails once retryLimit checks were all pending.  *)
(* Stated for retryLimit >= 1, where the count is not an edge case.        *)
C6_AtMostLimitChecks ==
    retryLimit >= 1 =>
        /\ Count("cvStatus") <= retryLimit
        /\ AllStatus(CfgReplies, retryLimit, "pending") => pc = "FAILED"

(* C6 amended: the status loop makes at most retryLimit + 1 checks: the    *)
(* first one and at most retryLimit re-checks.  Every re-check comes right *)
(* after a sleep of retryDuration that follows an earlier check; while     *)
(* retryLimit or fewer checks have been made and all were pending, the     *)
(* loop is sleeping or re-checking and has not failed; and once            *)
(* retryLimit + 1 checks were all pending the step fails with the timeout  *)
(* error, with no further check and no further sleep.                      *)
C6_CheckBound ==
    LET CR == CfgReplies
        US == UploadSleeps
    IN  /\ Count("cvStatus") <= retryLimit + 1
        /\ \A i \in Positions("cvStatus") :
             Kind(trace[i - 1]) # "upload" =>
                 /\ trace[i - 1] = [op |-> "SLEEP", url |-> <<>>, ms |-> retryDuration]
                 /\ Kind(trace[i - 2]) = "cvStatus"
        /\ LET n == Len(CR)
           IN  (1 <= n /\ n <= retryLimit /\ AllStatus(CR, n, "pending")) =>
                   /\ Cardinality(US) = n
                   /\ pc \in {"CV_SLEEP", "CV_STATUS_RETRY"}
                   /\ error = <<>>
        /\ AllStatus(CR, retryLimit + 1, "pending") =>
             /\ pc = "FAILED"
             /\ error = <<UploadTimeoutText>>
             /\ Count("cvStatus") = retryLimit + 1
             /\ Cardinality(US) = retryLimit
             /\ Kind(Last(trace)) = "cvStatus"

(* C6 witness: with retryLimit 2, three pending checks, then the timeout. *)
C6_Witness ==
    /\ retryLimit = 2
    /\ cfgSeen = <<"pending", "pending", "pending">>
    /\ pc = "FAILED"
    /\ error = <<UploadTimeoutText>>

(* C7: when retryLimit + 1 consecutive checks are pending, the upload step *)
(* fails with the message that names retryLimit, and the run is never      *)
(* requested.                                                              *)
C7_PendingTimeout ==
    AllStatus(CfgReplies, retryLimit + 1, "pending") =>
        /\ pc = "FAILED"
        /\ Len(error) = 1
        /\ error[1] = UploadTimeoutText
        /\ \E i \in 1..Len(error[1]) : error[1][i] = ToString(retryLimit)
        /\ Count("runPost") = 0

(* C7 witness: the timeout after four pending checks with retryLimit 3. *)
C7_Witness ==
    /\ retryLimit = 3
    /\ AllStatus(CfgReplies, 4, "pending")
    /\ pc = "FAILED"

(* C8: when the checks return k-1 times pending and then uploaded, with    *)
(* 1 <= k <= retryLimit, the step made exactly k checks and k-1 sleeps,    *)
(* each of retryDuration, and completed without an upload error.           *)
C8_UploadedAfterRetries ==
    LET k == Len(CfgReplies)
    IN  (/\ 1 <= k /\ k <= retryLimit
         /\ AllStatus(CfgReplies, k - 1, "pending")
         /\ Readable(CfgReplies[k]) /\ CfgReplies[k].status = "uploaded") =>
            /\ Count("cvStatus") = k
            /\ Cardinality(UploadSleeps) = k - 1
            /\ \A i \in UploadSleeps : trace[i].ms = retryDuration
            /\ pc \notin {"CV_STATUS_FIRST", "CV_STATUS_RETRY", "CV_SLEEP"}
            /\ error # <<>> => error[1][1] # "Error uploading the configuration: "

(* C8 witness: pending, pending, uploaded under a limit of 3 or more, and  *)
(* the invocation has gone on to request the run.                          *)
C8_Witness ==
    /\ retryLimit >= 3
    /\ cfgSeen = <<"pending", "pending", "uploaded">>
    /\ Cardinality(UploadSleeps) = 2
    /\ Count("runPost") = 1
    /\ retryDuration # pollInterval

(* C9: a check that returns anything but pending or uploaded is the last   *)
(* event of the invocation: the step fails at once with the invalid-status *)
(* error that carries the value, whatever the number of retries left.      *)
C9_InvalidStatus ==
    LET CR == CfgReplies
    IN  \A i \in 1..Len(CR) :
            (Readable(CR[i]) /\ CR[i].status \notin {"pending", "uploaded"}) =>
                /\ i = Len(CR)
                /\ Count("cvStatus") = i
                /\ Kind(Last(trace)) = "cvStatus"
                /\ pc = "FAILED"
                /\ error = << <<"Error uploading the configuration: ",
                                "Invalid config version status: ">> \o
                              (IF CR[i].status = Undefined
                               THEN <<"undefined">>
                               ELSE <<"\"", CR[i].status, "\"">>) >>

(* C9 witness: errored on the second check, with retries to spare. *)
C9_Witness ==
    /\ retryLimit = 3
    /\ cfgSeen = <<"pending", "errored">>
    /\ pc = "FAILED"

(* C10: when the first planned_and_finished or applied comes at the k-th   *)
(* fetch, the loop made exactly k fetches and k-1 sleeps, each of          *)
(* pollInterval, nothing follows that fetch, and the invocation returns    *)
(* that status.                                                            *)
C10_PollStopsAtTerminal ==
    LET PR == PollReplies
        PS == PollSleeps
    IN  \A k \in 1..Len(PR) :
            (/\ \A i \in 1..k : Readable(PR[i])
             /\ PR[k].status \in {"planned_and_finished", "applied"}
             /\ \A i \in 1..(k - 1) :
                  PR[i].status \notin {"planned_and_finished", "applied"}) =>
                /\ k <= retryLimit
                /\ Len(PR) = k
                /\ Count("runStatus") = k
                /\ Cardinality(PS) = k - 1
                /\ \A i \in PS : trace[i].ms = pollInterval
                /\ Kind(Last(trace)) = "runStatus"
                /\ pc = "DONE"
                /\ result = <<[runId |-> runRes.runId, status |-> PR[k].status]>>

(* C10 witness: pending, then planned_and_finished, under a limit of 3. *)
C10_Witness ==
    /\ retryLimit = 3
    /\ runSeen = <<"pending", "planned_and_finished">>
    /\ pc = "DONE"
    /\ Cardinality(PollSleeps) = 1

-----------------------------------------------------------------------------
(* The run was created and run() went into _poll. *)
InPoll == awaitApply /\ Truthy(runRes.runId) /\ pc # "RUN_CREATED"

(* The first n run-status fetches all returned a status that is neither    *)
(* planned_and_finished nor applied.                                       *)
NoneFinished(n) ==
    LET PR == PollReplies
    IN  /\ n <= Len(PR)
        /\ \A i \in 1..n :
             /\ Readable(PR[i])
             /\ PR[i].status \notin {"planned_and_finished", "applied"}

(* The poll loop has used its attempts: retryLimit unfinished fetches and  *)
(* the sleep after the last of them is over.                               *)
PollExhausted == InPoll /\ NoneFinished(retryLimit) /\ pc # "POLL_SLEEP"

(* C11: when none of the first retryLimit run-status fetches is finished,  *)
(* the loop makes exactly retryLimit fetches and then fails with the       *)
(* message that reports the status of the retryLimit-th fetch.             *)
C11_PollExhaustion ==
    LET PR == PollReplies
    IN  /\ InPoll => Count("runStatus") <= retryLimit
        /\ PollExhausted =>
             /\ Count("runStatus") = retryLimit
             /\ Len(PR) = retryLimit
             /\ pc = "FAILED"
             /\ retryLimit >= 1 =>
                  error = << <<"Error requesting run status. ", "Run status was ",
                               PR[retryLimit].status>> >>

(* C11 witness: two fetches with different unfinished statuses under a     *)
(* limit of 2, then the failure.                                           *)
C11_Witness ==
    /\ retryLimit = 2
    /\ runSeen = <<"pending", "errored">>
    /\ pc = "FAILED"

-----------------------------------------------------------------------------
LookupReplies == RepliesTo("lookup")

(* C12 as stated: a lookup reply without a resource id, the reply without  *)
(* any data.data resource included, fails with "Workspace not found.";     *)
(* any other reply makes the lookup return data.data.id.                   *)
C12_NotFoundWheneverNoId ==
    (Len(LookupReplies) = 1 /\ LookupReplies[1].ok) =>
        IF LookupReplies[1].shape = "resource" /\ LookupReplies[1].id \notin {Undefined, ""}
        THEN workspaceId = LookupReplies[1].id
        ELSE /\ pc = "FAILED"
             /\ error = << <<"Error checking the workspace: ", "Workspace not found.">> >>

(* C12 amended: a lookup reply whose data.data resource has no id fails    *)
(* with "Workspace not found."; a reply with no data.data resource at all  *)
(* fails with "No data returned from request."; in both cases nothing else *)
(* is requested.  Any other reply makes the lookup return exactly          *)
(* data.data.id, which is the id the next request is made for.             *)
C12_LookupOutcome ==
    (Len(LookupReplies) = 1 /\ LookupReplies[1].ok) =>
        LET r == LookupReplies[1]
        IN  IF r.shape = "resource" /\ r.id \notin {Undefined, ""}
            THEN /\ workspaceId = r.id
                 /\ \A i \in Positions("cvPost") :
                      trace[i].url = <<"/workspaces/", r.id, "/configuration-versions">>
                 /\ error # <<>> => error[1][1] # "Error checking the workspace: "
            ELSE /\ pc = "FAILED"
                 /\ workspaceId = Undefined
                 /\ Len(Requests) = 1
                 /\ error = << <<"Error checking the workspace: ",
                                 IF r.shape = "resource"
                                 THEN "Workspace not found."
                                 ELSE "No data returned from request.">> >>

(* C12 witness: a resource without an id was answered and the lookup       *)
(* failed as not found.                                                    *)
C12_Witness ==
    /\ Len(LookupReplies) = 1
    /\ LookupReplies[1].shape = "resource"
    /\ LookupReplies[1].id = Undefined
    /\ pc = "FAILED"
    /\ error = << <<"Error checking the workspace: ", "Workspace not found.">> >>

-----------------------------------------------------------------------------
(* The operation a failed invocation failed in, read off the requests: the *)
(* one that made the last request, except that a run request that settled  *)
(* was followed by _poll.                                                  *)
FailedOperation ==
    IF Requests = <<>> THEN "lookup"
    ELSE LET k == Kind(Last(Requests))
         IN  IF k = "cvStatus" THEN "upload"
             ELSE IF k = "runPost" /\ Len(settled) = Len(Requests) /\ Last(settled)
             THEN "runStatus"
             ELSE k

ContextPrefix(op) ==
    CASE op = "lookup" -> "Error checking the workspace: "
      [] op = "cvPost" -> "Error creating the config version: "
      [] op = "upload" -> "Error uploading the configuration: "
      [] op = "runPost" -> "Error requesting the run: "
      [] op = "runStatus" -> "Error requesting run status. "

(* C13: the message of every failure of run() begins with the context      *)
(* prefix of the operation that failed, the validation failure and the two *)
(* exhaustion failures included; a status check that fails in transport    *)
(* carries the upload prefix first and the status-check prefix second.     *)
C13_ContextPrefix ==
    pc = "FAILED" =>
        /\ Len(error) = 1
        /\ Len(error[1]) >= 2
        /\ error[1][1] = ContextPrefix(FailedOperation)
        /\ (Requests # <<>> /\ Kind(Last(Requests)) = "cvStatus" /\ ~Last(replies).ok) =>
             /\ error[1][2] = "Error getting configuration version: "
             /\ error[1][3] = Last(replies).message

(* C13 witness: a re-check of the configuration status failed in transport. *)
C13_Witness ==
    /\ pc = "FAILED"
    /\ Count("cvStatus") = 2
    /\ ~Last(replies).ok
    /\ error = << <<"Error uploading the configuration: ",
                    "Error getting configuration version: ", "Network Error">> >>

-----------------------------------------------------------------------------
(* The position in the trace of the i-th request of kind k. *)
NthPosition(k, i) ==
    LET P == Positions(k)
    IN  CHOOSE j \in P : Cardinality({x \in P : x <= j}) = i

(* The i-th of the run-status replies rs carries a status that is not one  *)
(* of the two finished ones.                                               *)
UnfinishedIn(rs, i) ==
    /\ Readable(rs[i])
    /\ rs[i].status \notin {"planned_and_finished", "applied"}

(* C14: only planned_and_finished and applied stop the run-poll loop.      *)
(* After a fetch that returned anything else, errored included, the loop   *)
(* sleeps; with attempts left it then fetches again; it fails with the     *)
(* last-status error only once retryLimit fetches were made, and run()     *)
(* never returns on such a fetch.                                          *)
C14_OnlySuccessStopsEarly ==
    LET PR == PollReplies
    IN  \A i \in 1..Len(PR) :
            UnfinishedIn(PR, i) =>
                LET p == NthPosition("runStatus", i)
                IN  /\ p < Len(trace)
                    /\ Kind(trace[p + 1]) = "sleep"
                    /\ i < retryLimit =>
                         \/ pc = "POLL_SLEEP" /\ p + 1 = Len(trace)
                         \/ Count("runStatus") > i /\ Kind(trace[p + 2]) = "runStatus"
                    /\ i = Len(PR) => pc # "DONE"
                    /\ (pc = "FAILED" /\ error[1][2] = "Run status was ") =>
                         Count("runStatus") = retryLimit

(* C14 witness: errored on every one of three fetches, and the failure     *)
(* came only after the third.                                              *)
C14_Witness ==
    /\ retryLimit = 3
    /\ runSeen = <<"errored", "errored", "errored">>
    /\ pc = "FAILED"
    /\ error = << <<"Error requesting run status. ", "Run status was ", "errored">> >>

-----------------------------------------------------------------------------
(* The time slept in the sleeps at the positions P of the trace. *)
RECURSIVE SleptMs(_)
SleptMs(P) ==
    IF P = {} THEN 0
    ELSE LET i == CHOOSE x \in P : TRUE
         IN  trace[i].ms + SleptMs(P \ {i})

(* C15: the upload-status loop never sleeps more than retryLimit times,    *)
(* retryLimit * retryDuration in all, and the run-poll loop never more     *)
(* than retryLimit times, retryLimit * pollInterval in all; the bounds are *)
(* reached when the configuration stays pending, and when no run-status    *)
(* fetch is finished.                                                      *)
C15_SleepBudget ==
    LET US == UploadSleeps
        PS == PollSleeps
    IN  /\ Cardinality(US) <= retryLimit
        /\ Cardinality(PS) <= retryLimit
        /\ SleptMs(US) <= retryLimit * retryDuration
        /\ SleptMs(PS) <= retryLimit * pollInterval
        /\ SleptMs(US) = Cardinality(US) * retryDuration
        /\ SleptMs(PS) = Cardinality(PS) * pollInterval
        /\ AllStatus(CfgReplies, retryLimit + 1, "pending") =>
             SleptMs(US) = retryLimit * retryDuration
        /\ (InPoll /\ NoneFinished(retryLimit)) =>
             SleptMs(PS) = retryLimit * pollInterval

(* C15 witness: the upload loop slept once and the poll loop slept its     *)
(* full budget of three intervals.                                         *)
C15_Witness ==
    /\ retryLimit = 3
    /\ SleptMs(UploadSleeps) = retryDuration
    /\ SleptMs(PollSleeps) = 3 * pollInterval
    /\ pc = "FAILED"

-----------------------------------------------------------------------------
(* C16: when every request settles and every sleep ends, every invocation  *)
(* of run() ends: it returns or it fails, whatever retryLimit is and       *)
(* whatever statuses the server reports.                                   *)
C16_Terminates == <>(pc \in {"DONE", "FAILED"})

(* C16 witness: the configuration was pending twice, the run never         *)
(* finished in three fetches, and the invocation has ended.                *)
C16_Witness ==
    /\ retryLimit = 3
    /\ cfgSeen = <<"pending", "pending", "uploaded">>
    /\ runSeen = <<"pending", "pending", "pending">>
    /\ pc = "FAILED"

-----------------------------------------------------------------------------
CreateReplies == RepliesTo("cvPost")

(* C17 as stated: a creation reply without a data.data resource makes the  *)
(* creation fail and no PUT is issued; every other reply, that is every    *)
(* reply with a data.data resource, makes it return the resource id and    *)
(* the upload-url attribute unchanged.                                     *)
C17_ReturnsWheneverResource ==
    (Len(CreateReplies) = 1 /\ CreateReplies[1].ok) =>
        LET r == CreateReplies[1]
        IN  IF r.shape # "resource"
            THEN /\ pc = "FAILED"
                 /\ error[1][1] = "Error creating the config version: "
                 /\ Count("upload") = 0
            ELSE /\ config = [id |-> r.id, uploadUrl |-> r.uploadUrl]
                 /\ error # <<>> => error[1][1] # "Error creating the config version: "

(* C17 amended: a creation reply without a data.data resource (no body, a  *)
(* body without data, or data null) makes the creation fail under its      *)
(* prefix, and so does a reply whose data.data resource has no attributes  *)
(* object, on reading upload-url of undefined; in all these cases nothing  *)
(* is returned and no PUT is issued.  A reply with a resource and its      *)
(* attributes makes it return that id and that upload-url, which the PUT   *)
(* and the status checks then use.                                         *)
C17_CreateConfigVersion ==
    (Len(CreateReplies) = 1 /\ CreateReplies[1].ok) =>
        LET r == CreateReplies[1]
        IN  /\ r.shape # "resource" =>
                 /\ pc = "FAILED"
                 /\ error[1][1] = "Error creating the config version: "
                 /\ config = [id |-> Undefined, uploadUrl |-> Undefined]
                 /\ Count("upload") = 0
                 /\ Kind(Last(trace)) = "cvPost"
            /\ (r.shape = "resource" /\ ~r.attributes) =>
                 /\ pc = "FAILED"
                 /\ error = << <<"Error creating the config version: ",
                                 "Cannot read properties of ", "undefined",
                                 " (reading '", "upload-url", "')">> >>
                 /\ config = [id |-> Undefined, uploadUrl |-> Undefined]
                 /\ Count("upload") = 0
                 /\ Kind(Last(trace)) = "cvPost"
            /\ (r.shape = "resource" /\ r.attributes) =>
                 /\ config = [id |-> r.id, uploadUrl |-> r.uploadUrl]
                 /\ \A i \in Positions("upload") : trace[i].url = <<r.uploadUrl>>
                 /\ \A i \in Positions("cvStatus") :
                      trace[i].url = <<"/configuration-versions/", r.id>>
                 /\ error # <<>> => error[1][1] # "Error creating the config version: "

(* C17 witness: the reply carried a resource with an id but no attributes, *)
(* the creation failed on reading upload-url of undefined, and nothing was *)
(* uploaded.                                                               *)
C17_Witness ==
    /\ Len(CreateReplies) = 1
    /\ CreateReplies[1].ok
    /\ CreateReplies[1].shape = "resource"
    /\ CreateReplies[1].id = "cv-1"
    /\ ~CreateReplies[1].attributes
    /\ pc = "FAILED"
    /\ error[1][1] = "Error creating the config version: "
    /\ Count("upload") = 0

-----------------------------------------------------------------------------
(* C18: the run is requested only right after a configuration status check *)
(* of this invocation that returned uploaded: the request before POST      *)
(* /runs is a status check, it is the last one made, and its reply carried *)
(* the status uploaded.                                                    *)
C18_RunOnlyAfterUploaded ==
    \A p \in Positions("runPost") :
        /\ p > 1
        /\ Kind(trace[p - 1]) = "cvStatus"
        /\ \A i \in Positions("cvStatus") : i < p
        /\ Len(CfgReplies) = Count("cvStatus")
        /\ Readable(Last(CfgReplies))
        /\ Last(CfgReplies).status = "uploaded"
        /\ Last(cfgSeen) = "uploaded"

(* C18 witness: the run was requested after pending, then uploaded. *)
C18_Witness ==
    /\ Count("runPost") = 1
    /\ cfgSeen = <<"pending", "uploaded">>
    /\ pc = "RUN_POST"

-----------------------------------------------------------------------------
(* C19: in the run-poll loop every fetch that is not finished is followed  *)
(* at once by a sleep of pollInterval, the retryLimit-th fetch included;   *)
(* there are as many sleeps as unfinished fetches; nothing is fetched      *)
(* after the retryLimit-th sleep; and the last-status failure exists only  *)
(* once that sleep has been started and has ended.                         *)
C19_SleepAfterEveryUnfinishedFetch ==
    LET PR == PollReplies
        PS == PollSleeps
    IN  /\ Cardinality(PS) =
               Cardinality({i \in 1..Len(PR) : UnfinishedIn(PR, i)})
        /\ \A i \in 1..Len(PR) :
             UnfinishedIn(PR, i) =>
                 LET p == NthPosition("runStatus", i)
                 IN  /\ p < Len(trace)
                     /\ trace[p + 1] = [op |-> "SLEEP", url |-> <<>>, ms |-> pollInterval]
        /\ \A q \in PS :
             Cardinality({x \in PS : x <= q}) = retryLimit => q = Len(trace)
        /\ pc = "POLL_SLEEP" => error = <<>> /\ Kind(Last(trace)) = "sleep"
        /\ (retryLimit >= 1 /\ pc = "FAILED" /\ error[1][2] = "Run status was ") =>
             /\ Kind(Last(trace)) = "sleep"
             /\ Cardinality(PS) = retryLimit
             /\ Count("runStatus") = retryLimit

(* C19 witness: two unfinished fetches under a limit of 2; the trace ends  *)
(* with the second sleep and the failure reports the second status.        *)
C19_Witness ==
    /\ retryLimit = 2
    /\ Len(runSeen) = 2
    /\ Cardinality(PollSleeps) = 2
    /\ Kind(Last(trace)) = "sleep"
    /\ pc = "FAILED"
    /\ error[1][2] = "Run status was "

-----------------------------------------------------------------------------
(* C20: with retryLimit = 0 the upload step still makes exactly one status *)
(* check once the PUT went through, never sleeps, goes on if that check    *)
(* says uploaded and fails with the timeout error if it says pending; the  *)
(* run-poll loop makes no fetch and no sleep and always fails, reporting a *)
(* last status of null.                                                    *)
C20_ZeroRetryLimit ==
    retryLimit = 0 =>
        /\ Count("cvStatus") <= 1
        /\ (Len(settled) >= 3 /\ settled[3]) => Count("cvStatus") = 1
        /\ UploadSleeps = {}
        /\ (Len(CfgReplies) = 1 /\ Readable(CfgReplies[1])) =>
             /\ CfgReplies[1].status = "uploaded" =>
                  /\ pc \notin {"CV_STATUS_FIRST", "CV_STATUS_RETRY", "CV_SLEEP"}
                  /\ Count("runPost") = 1 \/ pc = "CONFIG_UPLOADED"
                  /\ error # <<>> => error[1][1] # "Error uploading the configuration: "
             /\ CfgReplies[1].status = "pending" =>
                  /\ pc = "FAILED"
                  /\ error = << <<"Error uploading the configuration: ",
                                  "Config version status was still pending after ",
                                  "0", " attempts.">> >>
        /\ Count("runStatus") = 0
        /\ PollSleeps = {}
        /\ InPoll =>
             /\ pc = "FAILED"
             /\ error = << <<"Error requesting run status. ", "Run status was ", "null">> >>
        /\ pc = "DONE" => ~awaitApply

(* C20 witness: retryLimit 0, the one check said uploaded, the run was     *)
(* created, and polling failed at once with a last status of null.         *)
C20_Witness ==
    /\ retryLimit = 0
    /\ awaitApply
    /\ cfgSeen = <<"uploaded">>
    /\ Truthy(runRes.runId)
    /\ pc = "FAILED"
    /\ error = << <<"Error requesting run status. ", "Run status was ", "null">> >>

====
